---- MODULE Spec2Model ----
(***************************************************************************)
(* Verification model of ai-expense-assistant: the analytics engine        *)
(* (app/services/analytics.py), the export encoder                         *)
(* (app/services/export.py), the OCR and receipt orchestrators             *)
(* (app/services/ocr.py, extractor.py, pdf_processor.py) and the endpoints *)
(* that call them (app/api/expenses.py).                                   *)
(*                                                                         *)
(* Amounts are Python floats.  A float is modelled as a binary floating    *)
(* point number m * 2^e with a Prec-bit mantissa and round-to-nearest-even *)
(* after every operation, exactly as IEEE-754 arithmetic does; only the    *)
(* mantissa width is reduced (53 bits in CPython) so that the integers     *)
(* stay in TLC's range.  The exponent is unbounded: no overflow, no        *)
(* underflow.                                                              *)
(***************************************************************************)
EXTENDS Integers, Sequences, FiniteSets, TLC

VARIABLES expenses, group_by, threshold, call, ret, response,
          clock, history, request, external

vars == <<expenses, group_by, threshold, call, ret, response, clock, history, request, external>>

(***************************************************************************)
(* Bounds                                                                  *)
(***************************************************************************)
\* mantissa width of the modelled float
Prec == 10
\* longest record sequence of a request carrying full records
MaxRecords == 3
\* longest record sequence of a request carrying amount-only records
MaxAmounts == 4
\* longest record sequence of a request carrying loosely typed records
MaxLoose == 3

(***************************************************************************)
(* Floating point                                                          *)
(***************************************************************************)
RECURSIVE Pow2(_)
Pow2(n) == IF n <= 0 THEN 1 ELSE 2 * Pow2(n - 1)

Abs(n) == IF n < 0 THEN -n ELSE n

Sign(n) == IF n < 0 THEN -1 ELSE IF n > 0 THEN 1 ELSE 0

Zero == [m |-> 0, e |-> 0]

\* the mantissa m of a float other than zero: MinMant <= |m| < MaxMant
MaxMant == Pow2(Prec)

MinMant == Pow2(Prec - 1)

\* two guard bits below the mantissa
MinGuarded == Pow2(Prec + 1)

MaxGuarded == Pow2(Prec + 2)

\* q has Prec+2 bits: drop the two low bits, ties to even
RoundNearestEven(sgn, q, sticky, e) ==
    LET base == q \div 4
        low  == q % 4
        up   == low = 3 \/ (low = 2 /\ (sticky \/ base % 2 = 1))
        m    == IF up THEN base + 1 ELSE base
    IN  IF m = MaxMant THEN [m |-> sgn * MinMant, e |-> e + 3]
                          ELSE [m |-> sgn * m, e |-> e + 2]

\* the float nearest to sgn * n * 2^e (n > 0; sticky: bits were already lost below n)
RECURSIVE FRound(_, _, _, _)
FRound(sgn, n, sticky, e) ==
    IF n = 0 THEN Zero
    ELSE IF n < MinGuarded THEN FRound(sgn, 2 * n, sticky, e - 1)
    ELSE IF n >= MaxGuarded THEN FRound(sgn, n \div 2, sticky \/ n % 2 = 1, e + 1)
    ELSE RoundNearestEven(sgn, n, sticky, e)

FNeg(x) == [m |-> -x.m, e |-> x.e]

FAbs(x) == [m |-> Abs(x.m), e |-> x.e]

FAdd(x, y) ==
    IF x.m = 0 THEN y
    ELSE IF y.m = 0 THEN x
    ELSE IF x.e - y.e > Prec + 2 THEN x
    ELSE IF y.e - x.e > Prec + 2 THEN y
    ELSE LET lo == IF x.e < y.e THEN x.e ELSE y.e
             n  == x.m * Pow2(x.e - lo) + y.m * Pow2(y.e - lo)
         IN  FRound(Sign(n), Abs(n), FALSE, lo)

FSub(x, y) == FAdd(x, FNeg(y))

FMul(x, y) == FRound(Sign(x.m) * Sign(y.m), Abs(x.m) * Abs(y.m), FALSE, x.e + y.e)

\* y is not zero
FDiv(x, y) ==
    LET n == Abs(x.m) * MaxGuarded
        d == Abs(y.m)
    IN  FRound(Sign(x.m) * Sign(y.m), n \div d, n % d # 0, x.e - y.e - (Prec + 2))

\* floor of the square root of n, searched in lo..hi
RECURSIVE ISqrt(_, _, _)
ISqrt(n, lo, hi) ==
    IF lo >= hi THEN lo
    ELSE LET mid == (lo + hi + 1) \div 2
         IN  IF mid * mid <= n THEN ISqrt(n, mid, hi) ELSE ISqrt(n, lo, mid - 1)

\* x ** 0.5 for x >= 0
FSqrt(x) ==
    IF x.m = 0 THEN Zero
    ELSE LET k == IF (x.e - (Prec + 3)) % 2 = 0 THEN Prec + 3 ELSE Prec + 4
             n == x.m * Pow2(k)
             s == ISqrt(n, 0, MaxGuarded)
         IN  FRound(1, s, s * s # n, (x.e - k) \div 2)

\* rounding never crosses zero, so the sign of the rounded difference is exact
FLt(x, y) == FSub(x, y).m < 0

FGt(x, y) == FLt(y, x)

\* the float nearest to the rational n / d (d > 0): how a decimal literal is read
RECURSIVE FRat(_, _, _)
FRat(n, d, e) ==
    IF n = 0 THEN Zero
    ELSE IF Abs(n) < d * MinGuarded THEN FRat(2 * n, d, e - 1)
    ELSE IF Abs(n) >= d * MaxGuarded THEN FRat(n, 2 * d, e + 1)
    ELSE FRound(Sign(n), Abs(n) \div d, Abs(n) % d # 0, e)

FromInt(n) == FRat(n, 1, 0)

Dec(n, d) == FRat(n, d, 0)

\* x * 100 rounded to an integer, ties to even, on the exact value of x
Hundredths(x) ==
    LET n == Abs(x.m) * 100
    IN  IF x.e >= 0 THEN Sign(x.m) * n * Pow2(x.e)
        ELSE IF -x.e > Prec + 9 THEN 0
        ELSE LET p == Pow2(-x.e)
                 q == n \div p
                 r == n % p
                 up == 2 * r > p \/ (2 * r = p /\ q % 2 = 1)
             IN  Sign(x.m) * (IF up THEN q + 1 ELSE q)

\* round(x, 2)
Round2(x) == Dec(Hundredths(x), 100)

(***************************************************************************)
(* JSON values and records                                                 *)
(***************************************************************************)
\* a JSON value: a number (a float), a string or null
Num(x) == [t |-> "num", m |-> x.m, e |-> x.e, s |-> ""]

Str(s) == [t |-> "str", m |-> 0, e |-> 0, s |-> s]

Null == [t |-> "null", m |-> 0, e |-> 0, s |-> ""]

\* marks a key that the record does not have; never stored in a record
Absent == [t |-> "absent", m |-> 0, e |-> 0, s |-> ""]

FloatOf(v) == [m |-> v.m, e |-> v.e]

\* a dict with string keys: a function on the keys it has
MkRecord(f) == [k \in {k \in DOMAIN f : f[k].t # "absent"} |-> f[k]]

\* expense.get(key)
Get(expense, key) == IF key \in DOMAIN expense THEN expense[key] ELSE Null

\* Python truth value of a JSON value
Truthy(v) == ~(v.t = "null" \/ (v.t = "num" /\ v.m = 0) \/ (v.t = "str" /\ v.s = ""))

\* a variant that replaces None only
OrElseNone(x, default) == IF x.t = "null" THEN default ELSE x

\* x or default
OrElse(x, default) == IF Truthy(x) THEN x ELSE default

\* the strings of the model in ascending order of Python's str comparison
LexOrder == <<"", "2024-01-05", "2024-01-20", "2024-02-01", "Tax", "abc", "amount", "card",
              "cash", "category", "currency", "date", "description", "deviation", "food",
              "high", "low", "other", "payment_method", "project", "transport", "unknown",
              "vendor", "z_score">>

StrRank(s) == CHOOSE i \in 1..Len(LexOrder) : LexOrder[i] = s

\* a < b for two values of the same type
ValLt(a, b) == IF a.t = "num" THEN FLt(FloatOf(a), FloatOf(b)) ELSE StrRank(a.s) < StrRank(b.s)

\* sorted(values) for a set of mutually comparable values
RECURSIVE Sorted(_)
Sorted(S) ==
    IF S = {} THEN <<>>
    ELSE LET least == CHOOSE x \in S : \A y \in S \ {x} : ValLt(x, y)
         IN  <<least>> \o Sorted(S \ {least})

\* sum(xs): left to right from 0
RECURSIVE SumTo(_, _)
SumTo(xs, n) == IF n = 0 THEN Zero ELSE FAdd(SumTo(xs, n - 1), xs[n])

FSum(xs) == SumTo(xs, Len(xs))

(***************************************************************************)
(* Python dicts that keep insertion order: sequences of [k, v] entries     *)
(***************************************************************************)
RECURSIVE FindFrom(_, _, _)
FindFrom(d, key, i) == IF i > Len(d) THEN 0 ELSE IF d[i].k = key THEN i ELSE FindFrom(d, key, i + 1)

\* the position of key in d, 0 when d has no such key
Find(d, key) == FindFrom(d, key, 1)

Lookup(d, key) == d[Find(d, key)].v

\* a variant that keeps the last amount of a key instead of adding to it
AddAmountAssign(d, key, amount) ==
    LET i == Find(d, key)
    IN  IF i = 0 THEN Append(d, [k |-> key, v |-> FAdd(Zero, amount)])
        ELSE [d EXCEPT ![i].v = amount]

\* d[key] += amount on a defaultdict of numbers
AddAmount(d, key, amount) ==
    LET i == Find(d, key)
    IN  IF i = 0 THEN Append(d, [k |-> key, v |-> FAdd(Zero, amount)])
        ELSE [d EXCEPT ![i].v = FAdd(@, amount)]

\* a variant that assigns the amount of a group instead of adding to it
AddToGroupAssign(d, key, amount) ==
    LET i == Find(d, key)
    IN  IF i = 0 THEN Append(d, [k |-> key, v |-> [amount |-> FAdd(Zero, amount), count |-> 1]])
        ELSE [d EXCEPT ![i].v = [amount |-> amount, count |-> @.count + 1]]

\* breakdown[key]["amount"] += amount; breakdown[key]["count"] += 1
AddToGroup(d, key, amount) ==
    LET i == Find(d, key)
    IN  IF i = 0 THEN Append(d, [k |-> key, v |-> [amount |-> FAdd(Zero, amount), count |-> 1]])
        ELSE [d EXCEPT ![i].v = [amount |-> FAdd(@.amount, amount), count |-> @.count + 1]]

\* a variant that takes the last of the entries with the greatest amount
MaxIndexLast(amounts, i, best) ==
    CHOOSE k \in 1..Len(amounts) :
        /\ \A j \in 1..Len(amounts) : ~FGt(amounts[j], amounts[k])
        /\ \A j \in (k + 1)..Len(amounts) : FLt(amounts[j], amounts[k])

\* max(d.items(), key=...): index of the first entry whose amount no later entry exceeds
RECURSIVE MaxIndex(_, _, _)
MaxIndex(amounts, i, best) ==
    IF i > Len(amounts) THEN best
    ELSE MaxIndex(amounts, i + 1, IF FGt(amounts[i], amounts[best]) THEN i ELSE best)

(***************************************************************************)
(* analyze_expenses                                                        *)
(***************************************************************************)
Return(value) == [kind |-> "return", value |-> value]

Raise(exc) == [kind |-> "raise", value |-> exc]

\* one line of the insights list; cents is the amount as printed by the .2f format
Insight(kind, key, cents, currency) == [kind |-> kind, key |-> key, cents |-> cents, currency |-> currency]

\* the loop over the expenses; stops at the first amount that cannot be added
RECURSIVE Accumulate(_, _, _, _)
Accumulate(exps, gb, i, acc) ==
    IF i > Len(exps) \/ acc.raised THEN acc
    ELSE LET expense   == exps[i]
             amount    == OrElse(Get(expense, "amount"), Num(Zero))
             group_key == OrElse(Get(expense, gb), Str("other"))
             pm        == OrElse(Get(expense, "payment_method"), Str("unknown"))
             date      == OrElse(Get(expense, "date"), Str("unknown"))
         IN  IF amount.t # "num" THEN [acc EXCEPT !.raised = TRUE]
             ELSE Accumulate(exps, gb, i + 1,
                    [raised          |-> FALSE,
                     total           |-> FAdd(acc.total, FloatOf(amount)),
                     breakdown       |-> AddToGroup(acc.breakdown, group_key, FloatOf(amount)),
                     payment_methods |-> AddAmount(acc.payment_methods, pm, FloatOf(amount)),
                     daily_totals    |-> AddAmount(acc.daily_totals, date, FloatOf(amount))])

\* the records that carry a date: [e for e in expenses if e.get("date")]
DatedExpenses(exps) == SelectSeq(exps, LAMBDA e : Truthy(Get(e, "date")))

DateSet(exps) == {DatedExpenses(exps)[i]["date"] : i \in 1..Len(DatedExpenses(exps))}

\* sorted() compares the dates with each other: values of different types cannot be ordered
SortRaises(exps) ==
    /\ Len(DatedExpenses(exps)) >= 2
    /\ \E a, b \in DateSet(exps) : a.t # b.t

\* a variant that reports rising spending only
TrendOfUpwardOnly(first_half, second_half, currency) ==
    IF FGt(second_half, first_half) THEN <<Insight("upward", Null, 0, currency)>> ELSE <<>>

\* a variant that appends both trend lines when the halves differ
TrendOfBothLines(first_half, second_half, currency) ==
    IF FGt(second_half, first_half) \/ FLt(second_half, first_half)
    THEN <<Insight("upward", Null, 0, currency), Insight("downward", Null, 0, currency)>>
    ELSE <<>>

\* if second_half > first_half: upward; elif second_half < first_half: downward
TrendOf(first_half, second_half, currency) ==
    IF FGt(second_half, first_half) THEN <<Insight("upward", Null, 0, currency)>>
    ELSE IF FLt(second_half, first_half) THEN <<Insight("downward", Null, 0, currency)>>
    ELSE <<>>

\* a variant that puts the extra date of an odd number of dates into the first half
TrendInsightsExtraFirst(exps, daily_totals, currency) ==
    IF Len(DatedExpenses(exps)) >= 2
    THEN LET dates == Sorted(DateSet(exps))
             half  == (Len(dates) + 1) \div 2
         IN  IF Len(dates) >= 2
             THEN LET first_half  == FSum([i \in 1..half |-> Lookup(daily_totals, dates[i])])
                      second_half == FSum([i \in 1..(Len(dates) - half) |->
                                              Lookup(daily_totals, dates[half + i])])
                  IN  TrendOf(first_half, second_half, currency)
             ELSE <<>>
    ELSE <<>>

\* the trend lines appended to the insights
TrendInsights(exps, daily_totals, currency) ==
    IF Len(DatedExpenses(exps)) >= 2
    THEN LET dates == Sorted(DateSet(exps))
             half  == Len(dates) \div 2
         IN  IF Len(dates) >= 2
             THEN LET first_half  == FSum([i \in 1..half |-> Lookup(daily_totals, dates[i])])
                      second_half == FSum([i \in 1..(Len(dates) - half) |->
                                              Lookup(daily_totals, dates[half + i])])
                  IN  TrendOf(first_half, second_half, currency)
             ELSE <<>>
    ELSE <<>>

\* a variant whose empty result carries no insight
EmptyResultNoInsight(currency) ==
    [success |-> TRUE, total_amount |-> Zero, currency |-> currency, count |-> 0,
     breakdown |-> <<>>, insights |-> <<>>]

\* the result for no expenses
EmptyResult(currency) ==
    [success      |-> TRUE,
     total_amount |-> Zero,
     currency     |-> currency,
     count        |-> 0,
     breakdown    |-> <<>>,
     insights     |-> <<Insight("empty", Null, 0, currency)>>]

\* a variant that returns the total as accumulated
TotalAmountUnrounded(total) == total

\* "total_amount": round(total, 2)
TotalAmount(total) == Round2(total)

AnalyzeExpenses(exps, gb, currency) ==
    IF exps = <<>>
    THEN Return(EmptyResult(currency))
    ELSE LET acc == Accumulate(exps, gb, 1,
                      [raised |-> FALSE, total |-> Zero, breakdown |-> <<>>,
                       payment_methods |-> <<>>, daily_totals |-> <<>>])
         IN  IF acc.raised \/ SortRaises(exps) THEN Raise("TypeError")
             ELSE LET top_category == acc.breakdown[
                          MaxIndex([i \in 1..Len(acc.breakdown) |-> acc.breakdown[i].v.amount], 1, 1)]
                      top_payment  == acc.payment_methods[
                          MaxIndex([i \in 1..Len(acc.payment_methods) |-> acc.payment_methods[i].v], 1, 1)]
                      avg          == FDiv(acc.total, FromInt(Len(exps)))
                      insights     ==
                          <<Insight("highest", top_category.k, Hundredths(top_category.v.amount), currency),
                            Insight("payment", top_payment.k, Hundredths(top_payment.v), currency),
                            Insight("average", Null, Hundredths(avg), currency)>>
                          \o TrendInsights(exps, acc.daily_totals, currency)
                  IN  Return([success         |-> TRUE,
                              total_amount    |-> TotalAmount(acc.total),
                              currency        |-> currency,
                              count           |-> Len(exps),
                              breakdown       |-> acc.breakdown,
                              insights        |-> insights,
                              payment_summary |-> acc.payment_methods,
                              daily_totals    |-> acc.daily_totals])

(***************************************************************************)
(* detect_anomalies                                                        *)
(***************************************************************************)
\* a variant that calls an amount equal to the mean high
DeviationAtLeast(amount, mean) == IF FLt(amount, mean) THEN "low" ELSE "high"

\* "high" if amount > mean else "low"
Deviation(amount, mean) == IF FGt(amount, mean) THEN "high" ELSE "low"

\* a variant that attaches the z value as computed
AnomalyRecordUnrounded(expense, z_score, amount, mean) ==
    [k \in DOMAIN expense \cup {"z_score", "deviation"} |->
        IF k = "z_score" THEN Num(z_score)
        ELSE IF k = "deviation" THEN Str(Deviation(amount, mean))
        ELSE expense[k]]

\* {**expense, "z_score": round(z_score, 2), "deviation": ...}
AnomalyRecord(expense, z_score, amount, mean) ==
    [k \in DOMAIN expense \cup {"z_score", "deviation"} |->
        IF k = "z_score" THEN Num(Round2(z_score))
        ELSE IF k = "deviation" THEN Str(Deviation(amount, mean))
        ELSE expense[k]]

\* a variant that also flags a z value equal to the threshold
IsAnomalyInclusive(z_score, thr) == ~FLt(z_score, thr)

\* if z_score > threshold
IsAnomaly(z_score, thr) == FGt(z_score, thr)

\* z_score = abs(amount - mean) / std_dev
ZScore(amount, mean, std_dev) == FDiv(FAbs(FSub(amount, mean)), std_dev)

\* the loop that collects the anomalies
RECURSIVE ScanAnomalies(_, _, _, _, _, _)
ScanAnomalies(exps, mean, std_dev, thr, i, anomalies) ==
    IF i > Len(exps) THEN anomalies
    ELSE LET amount  == FloatOf(OrElse(Get(exps[i], "amount"), Num(Zero)))
             z_score == ZScore(amount, mean, std_dev)
         IN  ScanAnomalies(exps, mean, std_dev, thr, i + 1,
                IF IsAnomaly(z_score, thr)
                THEN Append(anomalies, AnomalyRecord(exps[i], z_score, amount, mean))
                ELSE anomalies)

\* amounts = [e.get("amount") or 0 for e in expenses]
Amounts(exps) == [i \in 1..Len(exps) |-> OrElse(Get(exps[i], "amount"), Num(Zero))]

\* mean = sum(amounts) / len(amounts)
Mean(amounts) == FDiv(FSum(amounts), FromInt(Len(amounts)))

\* std_dev = (sum((x - mean) ** 2 for x in amounts) / len(amounts)) ** 0.5
StdDev(amounts) ==
    LET mean == Mean(amounts)
        sq   == [i \in 1..Len(amounts) |-> FMul(FSub(amounts[i], mean), FSub(amounts[i], mean))]
    IN  FSqrt(FDiv(FSum(sq), FromInt(Len(amounts))))

DetectAnomalies(exps, thr) ==
    IF Len(exps) < 3 THEN Return(<<>>)
    ELSE LET values == Amounts(exps)
         IN  IF \E i \in 1..Len(exps) : values[i].t # "num" THEN Raise("TypeError")
             ELSE LET amounts == [i \in 1..Len(exps) |-> FloatOf(values[i])]
                      mean    == Mean(amounts)
                      std_dev == StdDev(amounts)
                  IN  IF std_dev = Zero THEN Return(<<>>)
                      ELSE Return(ScanAnomalies(exps, mean, std_dev, thr, 1, <<>>))

(***************************************************************************)
(* Requests                                                                *)
(***************************************************************************)
SeqsUpTo(S, n) == UNION {[1..k -> S] : k \in 0..n}

Rec(amount, category, date, payment_method) ==
    MkRecord([amount |-> amount, category |-> category, date |-> date,
              payment_method |-> payment_method])

\* expense records with every combination of present, missing, null and empty fields
Catalog ==
    {Rec(Num(Dec(1, 8)),   Str("food"),      Str("2024-01-05"), Str("cash")),
     Rec(Num(FromInt(1)),  Str("transport"), Str("2024-01-20"), Str("card")),
     Rec(Num(FromInt(3)),  Str("food"),      Str("2024-02-01"), Absent),
     Rec(Null,             Str("transport"), Str("2024-01-05"), Str("cash")),
     Rec(Absent,           Str("other"),     Absent,            Absent),
     Rec(Num(FromInt(1)),  Absent,           Str("2024-01-20"), Null),
     Rec(Num(Dec(1, 10)),  Str(""),          Str(""),           Str("card")),
     Rec(Num(FromInt(-1)), Str("food"),      Str("2024-02-01"), Str("cash"))}

\* records that carry an amount only, as the anomaly tests post them
AmountRecords ==
    {Rec(a, Absent, Absent, Absent) :
        a \in {Absent, Null, Num(FromInt(1)), Num(FromInt(2)), Num(Dec(19, 100))}}

\* records whose fields are not of the documented types
LooseRecords ==
    {Rec(Str("abc"),      Str("food"), Str("2024-01-05"), Str("cash")),
     Rec(Str(""),         Null,        Null,              Null),
     Rec(Num(FromInt(1)), Num(FromInt(7)), Num(FromInt(5)), Num(Zero)),
     Rec(Num(FromInt(2)), Str("food"), Num(FromInt(3)),   Str("card")),
     Rec(Num(Dec(1, 2)),  Absent,      Str("2024-01-20"), Absent),
     Rec(Null,            Str(""),     Str(""),           Str(""))}

\* the grouping fields a request names; no record has a project
GroupFields == {"category", "date", "payment_method", "project"}

Currencies == {"MAD", "EUR"}

\* currency: str = "MAD"
DefaultCurrency == "MAD"

\* threshold: float = 2.0
DefaultThreshold == FromInt(2)

Thresholds == {FromInt(-1), Zero, Dec(141, 100), DefaultThreshold}

NoCall == [op |-> "none", currency |-> ""]

NoReturn == [kind |-> "none", value |-> <<>>]

NoResponse == [status |-> 0, body |-> <<>>]

\* the fields of the response model of POST /expenses/analytics
AnalyticsResponse == {"success", "total_amount", "currency", "count", "breakdown", "insights"}

\* response_model=...: the body keeps the fields of the response model only
Filter(value, fields) == [k \in DOMAIN value \cap fields |-> value[k]]

\* except Exception as e: raise HTTPException(status_code=500, detail=str(e))
ServerError(exc) == [status |-> 500, body |-> [detail |-> exc]]

\* no upload or URL in the request
NoRequest == [kind |-> "none"]

\* the clock reads 0, nothing was invoked before, no external request was issued
InitEnvironment ==
    /\ clock = 0
    /\ history = <<>>
    /\ request = NoRequest
    /\ external = <<>>

InitResults ==
    /\ call = NoCall
    /\ ret = NoReturn
    /\ response = NoResponse
    /\ InitEnvironment

\* a request with full records, default threshold
InitRecords ==
    /\ expenses \in SeqsUpTo(Catalog, MaxRecords)
    /\ group_by \in GroupFields
    /\ threshold = DefaultThreshold

\* a request with amount-only records
InitAmounts ==
    /\ expenses \in SeqsUpTo(AmountRecords, MaxAmounts)
    /\ group_by = "category"
    /\ threshold \in Thresholds

Init == (InitRecords \/ InitAmounts) /\ InitResults

InitLoose ==
    /\ expenses \in SeqsUpTo(LooseRecords, MaxLoose)
    /\ group_by \in GroupFields
    /\ threshold = DefaultThreshold
    /\ InitResults

(***************************************************************************)
(* Operations: the request of the initial state is answered once, by one   *)
(* of the operations                                                       *)
(***************************************************************************)
\* analyze_expenses(expenses, group_by, currency) called directly
CallAnalyzeExpenses ==
    \E currency \in Currencies :
        /\ call = NoCall
        /\ call' = [op |-> "analyze_expenses", currency |-> currency]
        /\ ret' = AnalyzeExpenses(expenses, group_by, currency)
        /\ response' = NoResponse
        /\ UNCHANGED <<expenses, group_by, threshold, clock, history, request, external>>

\* POST /expenses/analytics
GetAnalytics ==
    LET result == AnalyzeExpenses(expenses, group_by, DefaultCurrency)
    IN  /\ call = NoCall
        /\ call' = [op |-> "get_analytics", currency |-> DefaultCurrency]
        /\ ret' = result
        /\ response' = IF result.kind = "raise" THEN ServerError(result.value)
                       ELSE [status |-> 200, body |-> Filter(result.value, AnalyticsResponse)]
        /\ UNCHANGED <<expenses, group_by, threshold, clock, history, request, external>>

\* a variant of detect_anomalies that writes z_score and deviation into the caller's records
CallDetectAnomaliesInPlace ==
    LET anomalies == DetectAnomalies(expenses, threshold)
    IN  /\ call = NoCall
        /\ call' = [op |-> "detect_anomalies", currency |-> ""]
        /\ ret' = anomalies
        /\ response' = NoResponse
        /\ expenses' = IF anomalies.kind = "return"
                       THEN [i \in 1..Len(expenses) |->
                               IF \E j \in 1..Len(anomalies.value) :
                                      Get(anomalies.value[j], "amount") = Get(expenses[i], "amount")
                               THEN CHOOSE a \in {anomalies.value[j] : j \in 1..Len(anomalies.value)} :
                                        Get(a, "amount") = Get(expenses[i], "amount")
                               ELSE expenses[i]]
                       ELSE expenses
        /\ UNCHANGED <<group_by, threshold, clock, history, request, external>>

\* detect_anomalies(expenses, threshold) called directly
CallDetectAnomalies ==
    /\ call = NoCall
    /\ call' = [op |-> "detect_anomalies", currency |-> ""]
    /\ ret' = DetectAnomalies(expenses, threshold)
    /\ response' = NoResponse
    /\ UNCHANGED <<expenses, group_by, threshold, clock, history, request, external>>

\* POST /expenses/analytics/anomalies
GetAnomalies ==
    LET anomalies == DetectAnomalies(expenses, threshold)
    IN  /\ call = NoCall
        /\ call' = [op |-> "get_anomalies", currency |-> ""]
        /\ ret' = anomalies
        /\ response' = IF anomalies.kind = "raise" THEN ServerError(anomalies.value)
                       ELSE [status |-> 200,
                             body |-> [count |-> Len(anomalies.value), anomalies |-> anomalies.value]]
        /\ UNCHANGED <<expenses, group_by, threshold, clock, history, request, external>>

Next ==
    \/ CallAnalyzeExpenses
    \/ GetAnalytics
    \/ CallDetectAnomalies
    \/ GetAnomalies

Spec == Init /\ [][Next]_vars

SpecLoose == InitLoose /\ [][Next]_vars

\* longest request of few records
MaxFew == 5

\* amount-only records: no amount, an amount that stands out among zeros, and a record that
\* was returned by detect_anomalies before and still carries a z_score and a deviation
FewRecords ==
    {Rec(Absent, Absent, Absent, Absent),
     Rec(Num(Dec(59, 100)), Absent, Absent, Absent),
     MkRecord([amount |-> Num(Dec(59, 100)), z_score |-> Num(FromInt(9)),
               deviation |-> Str("low")])}

\* a request of up to MaxFew amount-only records
InitFew ==
    /\ expenses \in SeqsUpTo(FewRecords, MaxFew)
    /\ group_by = "category"
    /\ threshold \in {Zero, DefaultThreshold}
    /\ InitResults

SpecFew == InitFew /\ [][Next]_vars

(***************************************************************************)
(* Export (app/services/export.py).  A text is a string.  The text that    *)
(* formatting a number yields is the string [s |-> format, m, e] of that   *)
(* number: two numbers have the same text under one format exactly when    *)
(* they are equal.  A CSV text is the sequence of its lines, a line the    *)
(* sequence of its fields; the empty string has no line.  A workbook is    *)
(* the sequence of its sheets, a sheet the sequence of its rows from row   *)
(* 1, a row the sequence of its cells from column A.  Fonts, fills,        *)
(* borders and alignments are the style of a cell; column widths are not   *)
(* modelled.                                                               *)
(***************************************************************************)
\* the records may hold any of these keys
ExportKeys == {"amount", "currency", "category", "description", "date", "payment_method",
               "project", "vendor", "Tax"}

\* str(value) of a number
StrOf(v) == [t |-> "str", m |-> v.m, e |-> v.e, s |-> "repr"]

\* all_keys = set(); for expense in expenses: all_keys.update(expense.keys())
AllKeys(exps) == UNION {DOMAIN exps[i] : i \in 1..Len(exps)}

\* sorted(all_keys)
SortedKeys(keys) ==
    LET ordered == Sorted({Str(k) : k \in keys})
    IN  [i \in 1..Len(ordered) |-> ordered[i].s]

\* what the csv writer writes for a value: nothing for None, str(value) for a number
CsvField(v) == IF v.t = "null" THEN Str("") ELSE IF v.t = "num" THEN StrOf(v) ELSE v

\* a variant that writes a placeholder for a key the record lacks
CsvRowDash(expense, fieldnames) ==
    [j \in 1..Len(fieldnames) |->
        IF fieldnames[j] \in DOMAIN expense THEN CsvField(expense[fieldnames[j]]) ELSE Str("-")]

\* DictWriter.writerow: the fields of a record in the order of fieldnames, "" for a missing key
CsvRow(expense, fieldnames) ==
    [j \in 1..Len(fieldnames) |->
        IF fieldnames[j] \in DOMAIN expense THEN CsvField(expense[fieldnames[j]]) ELSE Str("")]

\* DictWriter.writeheader
CsvHeader(fieldnames) == [j \in 1..Len(fieldnames) |-> Str(fieldnames[j])]

\* a variant that writes a header row for no expenses as well
CsvOfEmptyHeaderOnly == <<CsvHeader(<<>>)>>

\* if not expenses: return ""
CsvOfEmpty == <<>>

\* the keys in the order in which the first n records introduce them
RECURSIVE FirstSeenTo(_, _)
FirstSeenTo(exps, n) ==
    IF n = 0 THEN <<>>
    ELSE LET before == FirstSeenTo(exps, n - 1)
             seen   == {before[j] : j \in 1..Len(before)}
         IN  before \o SortedKeys(DOMAIN exps[n] \ seen)

\* a variant that keeps the keys in the order in which the records introduce them
FieldNamesFirstSeen(exps) == FirstSeenTo(exps, Len(exps))

\* fieldnames = sorted(all_keys)
FieldNames(exps) == SortedKeys(AllKeys(exps))

ExportToCsv(exps) ==
    IF Len(exps) = 0 THEN Return(CsvOfEmpty)
    ELSE LET fieldnames == FieldNames(exps)
         IN  Return(<<CsvHeader(fieldnames)>> \o [i \in 1..Len(exps) |-> CsvRow(exps[i], fieldnames)])

\* a cell of a sheet
Cell(value, style) == [value |-> value, style |-> style]

\* header.replace("_", " ").title()
HeaderText(header) ==
    CASE header = "amount"         -> "Amount"
      [] header = "currency"       -> "Currency"
      [] header = "category"       -> "Category"
      [] header = "description"    -> "Description"
      [] header = "date"           -> "Date"
      [] header = "payment_method" -> "Payment Method"
      [] header = "project"        -> "Project"
      [] header = "vendor"         -> "Vendor"
      [] header = "Tax"            -> "Tax"

\* headers = [...]
DefaultHeaders == <<"amount", "currency", "category", "description", "date", "payment_method">>

\* a variant that appends every key, the default ones included
HeadersAllAppended(exps) == DefaultHeaders \o SortedKeys(AllKeys(exps))

\* for key in sorted(all_keys): if key not in headers: headers.append(key)
Headers(exps) ==
    DefaultHeaders \o SortedKeys(AllKeys(exps) \ {DefaultHeaders[j] : j \in 1..Len(DefaultHeaders)})

\* ws.cell(row, column, value=expense.get(header, "")) and its format
DataCell(expense, header) ==
    LET value == IF header \in DOMAIN expense THEN expense[header] ELSE Str("")
    IN  Cell(value, IF header = "amount" /\ value.t = "num" THEN "amount" ELSE "data")

\* the clock ticks this many times a minute
TicksPerMinute == 2

\* a variant that prints the clock to the tick
GeneratedToTheTick(now) ==
    [t |-> "str", m |-> now, e |-> 0, s |-> "Generated: %Y-%m-%d %H:%M"]

\* f"Generated: {datetime.now().strftime('%Y-%m-%d %H:%M')}": the minute of the clock
Generated(now) ==
    [t |-> "str", m |-> now \div TicksPerMinute, e |-> 0, s |-> "Generated: %Y-%m-%d %H:%M"]

\* the Expenses sheet of a workbook with expenses
ExpensesSheet(exps, title, now) ==
    LET headers == Headers(exps)
    IN  [title  |-> "Expenses",
         merged |-> Len(headers),
         rows   |-> << <<Cell(Str(title), "title")>>,
                       <<Cell(Generated(now), "generated")>>,
                       <<>>,
                       [j \in 1..Len(headers) |-> Cell(Str(HeaderText(headers[j])), "header")] >>
                    \o [i \in 1..Len(exps) |->
                           [j \in 1..Len(headers) |-> DataCell(exps[i], headers[j])]]]

\* a variant of the workbook for no expenses that holds a title row as well
EmptyWorkbookTitled(title) ==
    << [title |-> "Expenses", merged |-> 0,
        rows |-> << <<Cell(Str(title), "title")>>,
                    <<Cell(Str("No expenses to export"), "plain")>> >>] >>

\* ws["A1"] = "No expenses to export"
EmptyWorkbook(title) ==
    << [title |-> "Expenses", merged |-> 0,
        rows |-> << <<Cell(Str("No expenses to export"), "plain")>> >>] >>

\* x * 10 rounded to an integer, ties to even, on the exact value of x
Tenths(x) ==
    LET n == Abs(x.m) * 10
    IN  IF x.e >= 0 THEN Sign(x.m) * n * Pow2(x.e)
        ELSE IF -x.e > Prec + 9 THEN 0
        ELSE LET p == Pow2(-x.e)
                 q == n \div p
                 r == n % p
                 up == 2 * r > p \/ (2 * r = p /\ q % 2 = 1)
             IN  Sign(x.m) * (IF up THEN q + 1 ELSE q)

\* f"{pct:.1f}%"
PctText(pct) == [t |-> "str", m |-> Tenths(pct), e |-> 0, s |-> "%.1f%%"]

\* expense.get("amount") or 0
AmountOf(expense) == OrElse(Get(expense, "amount"), Num(Zero))

\* sum() and + add numbers only
SummaryRaises(exps) == \E i \in 1..Len(exps) : AmountOf(exps[i]).t # "num"

\* sum(e.get("amount", 0) or 0 for e in expenses)
SummaryTotal(exps) == FSum([i \in 1..Len(exps) |-> FloatOf(AmountOf(exps[i]))])

\* categories[cat] = categories.get(cat, 0) + amount, over the expenses in order
RECURSIVE SumsBy(_, _, _, _)
SumsBy(exps, key, default, n) ==
    IF n = 0 THEN <<>>
    ELSE AddAmount(SumsBy(exps, key, default, n - 1),
                   OrElse(Get(exps[n], key), Str(default)), FloatOf(AmountOf(exps[n])))

\* the place of an entry in a list in descending order of amount: behind its equals
RECURSIVE InsertDescending(_, _, _)
InsertDescending(sorted, entry, i) ==
    IF i > Len(sorted) THEN Append(sorted, entry)
    ELSE IF FLt(sorted[i].v, entry.v)
         THEN SubSeq(sorted, 1, i - 1) \o <<entry>> \o SubSeq(sorted, i, Len(sorted))
         ELSE InsertDescending(sorted, entry, i + 1)

\* sorted(d.items(), key=lambda x: -x[1]): a stable sort
RECURSIVE SortedDescending(_, _)
SortedDescending(d, n) ==
    IF n = 0 THEN <<>> ELSE InsertDescending(SortedDescending(d, n - 1), d[n], 1)

\* pct = (amount / total * 100) if total > 0 else 0
Pct(amount, total) ==
    IF FGt(total, Zero) THEN FMul(FDiv(amount, total), FromInt(100)) ELSE Zero

\* the Summary sheet
SummarySheet(exps) ==
    LET total           == SummaryTotal(exps)
        categories      == SumsBy(exps, "category", "Other", Len(exps))
        payment_methods == SumsBy(exps, "payment_method", "Unknown", Len(exps))
        by_category     == SortedDescending(categories, Len(categories))
        by_payment      == SortedDescending(payment_methods, Len(payment_methods))
    IN  [title  |-> "Summary",
         merged |-> 0,
         rows   |-> << <<Cell(Str("Expense Summary"), "title")>>,
                       <<>>,
                       <<Cell(Str("Overview"), "heading")>>,
                       <<Cell(Str("Total Expenses"), "plain"), Cell(Num(FromInt(Len(exps))), "plain")>>,
                       <<Cell(Str("Total Amount"), "plain"), Cell(Num(total), "number")>>,
                       <<>>,
                       <<Cell(Str("By Category"), "heading")>> >>
                    \o [i \in 1..Len(by_category) |->
                           <<Cell(by_category[i].k, "plain"),
                             Cell(Num(by_category[i].v), "number"),
                             Cell(PctText(Pct(by_category[i].v, total)), "plain")>>]
                    \o << <<>>, <<Cell(Str("By Payment Method"), "heading")>> >>
                    \o [i \in 1..Len(by_payment) |->
                           <<Cell(by_payment[i].k, "plain"), Cell(Num(by_payment[i].v), "number")>>]]

ExportToExcel(exps, include_summary, title, now) ==
    IF Len(exps) = 0 THEN Return(EmptyWorkbook(title))
    ELSE IF ~include_summary THEN Return(<<ExpensesSheet(exps, title, now)>>)
    ELSE IF SummaryRaises(exps) THEN Raise("TypeError")
    ELSE Return(<<ExpensesSheet(exps, title, now), SummarySheet(exps)>>)

\* an export record
Exp(amount, currency, category, description, date, payment_method, project, vendor, tax) ==
    MkRecord([amount |-> amount, currency |-> currency, category |-> category,
              description |-> description, date |-> date, payment_method |-> payment_method,
              project |-> project, vendor |-> vendor, Tax |-> tax])

\* records as the export tests post them, with missing, null and empty fields and other keys
ExportCatalog ==
    {Exp(Num(FromInt(3)), Str("MAD"), Str("transport"), Absent, Absent, Absent, Absent, Absent, Absent),
     Exp(Num(FromInt(1)), Str("MAD"), Str("food"), Absent, Absent, Absent, Absent, Absent, Absent),
     Exp(Absent, Absent, Absent, Absent, Absent, Absent, Absent, Absent, Absent),
     Exp(Null, Absent, Absent, Absent, Absent, Absent, Absent, Str("abc"), Absent),
     Exp(Absent, Absent, Absent, Str(""), Str("2024-01-05"), Str("cash"), Absent, Absent,
         Num(Dec(1, 2))),
     Exp(Num(Dec(1, 8)), Absent, Str("food"), Absent, Absent, Str("card"), Str("abc"), Absent,
         Absent)}

\* longest record sequence of an export request
MaxExports == 3

\* title: str = "Expense Report"
DefaultTitle == "Expense Report"

Titles == {DefaultTitle, "Q1"}

\* title.replace(' ', '_') + ".xlsx"
FileName(title) ==
    CASE title = "Expense Report" -> "Expense_Report.xlsx"
      [] title = "Q1"             -> "Q1.xlsx"

\* latest reading of the clock
MaxClock == 3

InitExport ==
    /\ expenses \in SeqsUpTo(ExportCatalog, MaxExports)
    /\ group_by = "category"
    /\ threshold = DefaultThreshold
    /\ call = NoCall
    /\ ret = NoReturn
    /\ response = NoResponse
    /\ clock \in 0..MaxClock
    /\ history = <<>>
    /\ request = NoRequest
    /\ external = <<>>

\* export_to_csv(expenses) called directly
CallExportToCsv ==
    /\ call = NoCall
    /\ call' = [op |-> "export_to_csv"]
    /\ ret' = ExportToCsv(expenses)
    /\ response' = NoResponse
    /\ UNCHANGED <<expenses, group_by, threshold, clock, history, request, external>>

\* POST /expenses/export/csv
ExportCsv ==
    LET csv_content == ExportToCsv(expenses)
    IN  /\ call = NoCall
        /\ call' = [op |-> "export_csv"]
        /\ ret' = csv_content
        /\ response' = IF csv_content.kind = "raise" THEN ServerError(csv_content.value)
                       ELSE [status |-> 200, body |-> csv_content.value, media_type |-> "text/csv",
                             filename |-> "expenses.csv"]
        /\ UNCHANGED <<expenses, group_by, threshold, clock, history, request, external>>

\* export_to_excel(expenses, include_summary, title) called directly
CallExportToExcel ==
    \E include_summary \in BOOLEAN, title \in Titles :
        /\ call = NoCall
        /\ call' = [op |-> "export_to_excel", include_summary |-> include_summary, title |-> title]
        /\ ret' = ExportToExcel(expenses, include_summary, title, clock)
        /\ response' = NoResponse
        /\ UNCHANGED <<expenses, group_by, threshold, clock, history, request, external>>

\* POST /expenses/export/excel
ExportExcelEndpoint ==
    \E include_summary \in BOOLEAN, title \in Titles :
        LET excel_bytes == ExportToExcel(expenses, include_summary, title, clock)
        IN  /\ call = NoCall
            /\ call' = [op |-> "export_excel_endpoint", include_summary |-> include_summary,
                        title |-> title]
            /\ ret' = excel_bytes
            /\ response' =
                 IF excel_bytes.kind = "raise" THEN ServerError(excel_bytes.value)
                 ELSE [status |-> 200, body |-> excel_bytes.value,
                       media_type |-> "application/vnd.openxmlformats-officedocument.spreadsheetml.sheet",
                       filename |-> FileName(title)]
            /\ UNCHANGED <<expenses, group_by, threshold, clock, history, request, external>>

NextExport ==
    \/ CallExportToCsv
    \/ ExportCsv
    \/ CallExportToExcel
    \/ ExportExcelEndpoint

SpecExport == InitExport /\ [][NextExport]_vars

(***************************************************************************)
(* Sequences of invocations.  The functions keep nothing between two       *)
(* invocations: no module variable, no default argument that is written.   *)
(* What an invocation reads besides its arguments is listed in reads.      *)
(***************************************************************************)
\* period.upper()
Upper(period) ==
    CASE period = "this period" -> "THIS PERIOD"
      [] period = "Q1"          -> "Q1"

\* the summary text: its header, its totals, one line per category, one line per insight
GenerateSummary(exps, period) ==
    LET analytics == AnalyzeExpenses(exps, "category", DefaultCurrency)
    IN  IF analytics.kind = "raise" THEN analytics
        ELSE LET a == analytics.value
             IN  Return([period      |-> Upper(period),
                         total_cents |-> Hundredths(a.total_amount),
                         currency    |-> a.currency,
                         count       |-> a.count,
                         categories  |->
                             [i \in 1..Len(a.breakdown) |->
                                 [category |-> a.breakdown[i].k,
                                  cents    |-> Hundredths(a.breakdown[i].v.amount),
                                  pct      |-> PctText(Pct(a.breakdown[i].v.amount, a.total_amount))]],
                         insights    |-> a.insights])

\* period: str = "this period"
Periods == {"this period", "Q1"}

\* the record sequences that the invocations of a session are given
SessionInputs ==
    {<<>>,
     <<Rec(Num(FromInt(1)), Str("food"), Str("2024-01-05"), Str("cash")),
       Rec(Num(FromInt(1)), Str("transport"), Str("2024-01-20"), Str("card")),
       Rec(Num(FromInt(3)), Str("food"), Str("2024-02-01"), Absent)>>,
     <<Rec(Num(FromInt(1)), Str("food"), Absent, Str("cash")),
       Rec(Num(FromInt(-1)), Str("transport"), Absent, Str("cash"))>>,
     <<Rec(Num(FromInt(-1)), Str("food"), Absent, Str("cash"))>>}

\* most invocations in a session
MaxCalls == 2

InitSession ==
    /\ expenses = <<>>
    /\ group_by = "category"
    /\ threshold = DefaultThreshold
    /\ InitResults

\* one invocation: what it was given, what it read besides, what it returned
Invocation(op, args, reads, result) == [op |-> op, args |-> args, reads |-> reads, result |-> result]

InvokeAnalyzeExpenses ==
    \E exps \in SessionInputs, gb \in {"category", "date"} :
        /\ Len(history) < MaxCalls
        /\ history' = Append(history, Invocation("analyze_expenses", <<exps, gb, DefaultCurrency>>,
                                                 <<>>, AnalyzeExpenses(exps, gb, DefaultCurrency)))
        /\ UNCHANGED <<expenses, group_by, threshold, call, ret, response, clock, request, external>>

InvokeDetectAnomalies ==
    \E exps \in SessionInputs, thr \in {Zero, DefaultThreshold} :
        /\ Len(history) < MaxCalls
        /\ history' = Append(history, Invocation("detect_anomalies", <<exps, thr>>, <<>>,
                                                 DetectAnomalies(exps, thr)))
        /\ UNCHANGED <<expenses, group_by, threshold, call, ret, response, clock, request, external>>

InvokeGenerateSummary ==
    \E exps \in SessionInputs, period \in Periods :
        /\ Len(history) < MaxCalls
        /\ history' = Append(history, Invocation("generate_summary", <<exps, period>>, <<>>,
                                                 GenerateSummary(exps, period)))
        /\ UNCHANGED <<expenses, group_by, threshold, call, ret, response, clock, request, external>>

InvokeExportToCsv ==
    \E exps \in SessionInputs :
        /\ Len(history) < MaxCalls
        /\ history' = Append(history, Invocation("export_to_csv", <<exps>>, <<>>, ExportToCsv(exps)))
        /\ UNCHANGED <<expenses, group_by, threshold, call, ret, response, clock, request, external>>

\* datetime.now() is read when there are expenses
InvokeExportToExcel ==
    \E exps \in SessionInputs, include_summary \in BOOLEAN :
        /\ Len(history) < MaxCalls
        /\ history' = Append(history,
                Invocation("export_to_excel", <<exps, include_summary, DefaultTitle>>,
                           IF Len(exps) = 0 THEN <<>> ELSE <<clock>>,
                           ExportToExcel(exps, include_summary, DefaultTitle, clock)))
        /\ UNCHANGED <<expenses, group_by, threshold, call, ret, response, clock, request, external>>

\* time passes between two invocations
Tick ==
    /\ clock < MaxClock
    /\ clock' = clock + 1
    /\ UNCHANGED <<expenses, group_by, threshold, call, ret, response, history, request, external>>

NextSession ==
    \/ InvokeAnalyzeExpenses
    \/ InvokeDetectAnomalies
    \/ InvokeGenerateSummary
    \/ InvokeExportToCsv
    \/ InvokeExportToExcel
    \/ Tick

SpecSession == InitSession /\ [][NextSession]_vars

(***************************************************************************)
(* OCR, receipt and batch endpoints (app/services/ocr.py, extractor.py,    *)
(* pdf_processor.py, receipt_parser.py, app/api/expenses.py).  A handler   *)
(* issues requests to external collaborators: the hosted model, a web      *)
(* server, the PDF library.  What a collaborator answers is not decided    *)
(* by the program: every outcome is possible.  The variable external       *)
(* lists the requests a handler issued, in the order it issued them.       *)
(***************************************************************************)
\* one request to a collaborator and how it ended
Ext(kind, target, outcome) == [kind |-> kind, target |-> target, verify |-> TRUE, outcome |-> outcome]

\* a piece of a handler: the requests it issued and what it returned or raised
Ran(log, result) == [log |-> log, result |-> result]

\* second runs after first unless first raised
Then(first, second) ==
    IF first.result.kind = "raise" THEN first ELSE Ran(first.log \o second.log, second.result)

\* client.chat.completions.create(model=...) and the reading of its reply: the call fails, or
\* the reply is not the JSON that is expected, or value comes of it
ModelCall(model, purpose, outcome, value) ==
    Ran(<<Ext("model", <<model, purpose>>, outcome)>>,
        IF outcome = "ok" THEN Return(value)
        ELSE IF outcome = "invalid" THEN Raise("JSONDecodeError") ELSE Raise("APIError"))

\* fitz.open(...) and the work on the document
PdfCall(kind, target, outcome, value) ==
    Ran(<<Ext(kind, target, outcome)>>, IF outcome = "ok" THEN Return(value) ELSE Raise("FileDataError"))

\* DEFAULT_MODEL = os.getenv("DEFAULT_MODEL", "gpt-4o-mini")
DefaultModel == "gpt-4o-mini"

\* a variant that accepts every scheme
IsValidUrlAnyScheme(url) == ~url.malformed /\ url.netloc # ""

\* urlparse(url) lowers the scheme; a URL that cannot be parsed is not valid
IsValidUrl(url) ==
    /\ ~url.malformed
    /\ (IF url.scheme = "HTTPS" THEN "https" ELSE url.scheme) \in {"http", "https"}
    /\ url.netloc # ""

\* url.lower().split('?')[0].endswith(image_extensions)
IsImageUrl(url) == url.path \in {"/r.jpg", "/R.PNG"}

\* requests.get(url, verify=True), after an SSLError requests.get(url, verify=False); without
\* the requests package one urlopen that verifies no certificate
FetchWebpageText(url, installed, fetch, retry) ==
    LET first  == Ext("fetch", url, fetch)
        second == [Ext("fetch", url, retry) EXCEPT !.verify = FALSE]
    IN  IF ~installed
        THEN Ran(<<[Ext("fetch", url, IF fetch = "ok" THEN "ok" ELSE "error") EXCEPT !.verify = FALSE]>>,
                 IF fetch = "ok" THEN Return("text") ELSE Raise("ValueError"))
        ELSE IF fetch = "ok" THEN Ran(<<first>>, Return("text"))
        ELSE IF fetch = "ssl"
             THEN Ran(<<first, second>>, IF retry = "ok" THEN Return("text") ELSE Raise("ValueError"))
        ELSE Ran(<<first>>, Raise("ValueError"))

ProcessReceiptFromUrl(url, installed, fetch, retry, vision, extract) ==
    IF ~IsValidUrl(url) THEN Ran(<<>>, Raise("ValueError"))
    ELSE IF IsImageUrl(url)
         THEN IF vision # "ok" THEN Ran(ModelCall("gpt-4o", "text", vision, "text").log, Raise("ValueError"))
              ELSE Then(ModelCall("gpt-4o", "text", vision, "text"),
                        ModelCall(DefaultModel, "expenses", extract, [source |-> "image_url"]))
         ELSE Then(FetchWebpageText(url, installed, fetch, retry),
                   ModelCall("gpt-4o-mini", "expenses", extract, [source |-> "webpage"]))

\* process_receipt: extract_text_from_image, then extract_multiple_expenses
ProcessReceipt(vision, extract) ==
    Then(ModelCall("gpt-4o", "text", vision, "text"),
         ModelCall(DefaultModel, "expenses", extract, [source |-> "image_upload"]))

\* if len(extracted_text) > 50
MinTextLength == 50

\* a variant that takes the text path for a text of 50 characters as well
HasTextFrom50(text) == ~text.blank /\ text.len >= MinTextLength

\* if extracted_text.strip() and len(extracted_text) > 50
HasText(text) == ~text.blank /\ text.len > MinTextLength

\* the PDF branch of parse_receipt_upload
ParsePdf(text, info, extraction, raster, parse) ==
    LET opened == Then(PdfCall("pdf_info", "document", info, "info"),
                       PdfCall("pdf_text", "document", extraction, text))
    IN  IF HasText(text)
        THEN Then(opened, ModelCall("gpt-4o-mini", "receipt", parse, [source |-> "pdf_text"]))
        ELSE Then(Then(opened, PdfCall("rasterize", "page 0", raster, "png")),
                  ModelCall("gpt-4o", "receipt", parse, [source |-> "pdf_ocr"]))

\* EXPENSE_CATEGORIES
ExpenseCategories ==
    {"transport", "food", "utilities", "rent", "entertainment", "shopping", "health",
     "education", "travel", "other"}

\* a JSON object and a JSON array in a reply of the model
JDict(d) == [t |-> "dict", d |-> d]

JList(xs) == [t |-> "list", xs |-> xs]

\* if expense_type and expense_type in EXPENSE_CATEGORIES
CategoryForced(expense_type) == Truthy(expense_type) /\ expense_type.s \in ExpenseCategories

\* the lines of extract_single_expense after json.loads: result is the parsed reply
ReadExpense(result, expense_type) ==
    IF result.t # "dict" THEN Raise("AttributeError")
    ELSE LET r == result.d
         IN  IF "expenses" \in DOMAIN r /\ r["expenses"].t # "list" THEN Raise("TypeError")
             ELSE LET expense_data ==
                          IF "expenses" \in DOMAIN r /\ Len(r["expenses"].xs) > 0
                          THEN r["expenses"].xs[1]
                          ELSE IF "expense" \in DOMAIN r THEN r["expense"] ELSE result
                  IN  IF expense_data.t # "dict"
                      THEN Raise(IF CategoryForced(expense_type) THEN "TypeError"
                                 ELSE "AttributeError")
                      ELSE LET data == IF CategoryForced(expense_type)
                                       THEN [k \in DOMAIN expense_data.d \cup {"category"} |->
                                                IF k = "category" THEN expense_type
                                                ELSE expense_data.d[k]]
                                       ELSE expense_data.d
                           IN  Return([success           |-> TRUE,
                                       journal           |-> "expenses",
                                       expense_type      |-> Get(data, "category"),
                                       data              |-> data,
                                       language_detected |-> Get(r, "language_detected")])

\* extract_single_expense: one call of the model, then the reading of its reply
ExtractSingleExpense(text, expense_type, outcome, result) ==
    Then(ModelCall(DefaultModel, "expense", outcome, result),
         Ran(<<>>, ReadExpense(result, expense_type)))

\* a variant that gives up at the first text whose extraction fails
ExtractBatchUntilFailure(texts, outcomes) ==
    LET failures == {i \in 1..Len(texts) : outcomes[i] # "ok"}
        last     == IF failures = {} THEN Len(texts)
                    ELSE CHOOSE i \in failures : \A j \in failures : i <= j
    IN  Ran([i \in 1..last |-> Ext("model", <<DefaultModel, texts[i], i>>, outcomes[i])],
            Return([success   |-> TRUE,
                    total     |-> Len(texts),
                    processed |-> IF failures = {} THEN last ELSE last - 1,
                    failed    |-> IF failures = {} THEN 0 ELSE 1,
                    results   |-> [i \in 1..last |->
                                      [input |-> texts[i], success |-> outcomes[i] = "ok"]]]))

\* extract_batch: one extract_single_expense per text, a failure is counted and kept
ExtractBatch(texts, outcomes) ==
    LET failed == Cardinality({i \in 1..Len(texts) : outcomes[i] # "ok"})
    IN  Ran([i \in 1..Len(texts) |-> Ext("model", <<DefaultModel, texts[i], i>>, outcomes[i])],
            Return([success   |-> TRUE,
                    total     |-> Len(texts),
                    processed |-> Len(texts) - failed,
                    failed    |-> failed,
                    results   |-> [i \in 1..Len(texts) |->
                                      [input |-> texts[i], success |-> outcomes[i] = "ok"]]]))

AllowedImageTypes == {"image/jpeg", "image/png", "image/webp", "image/gif"}

AllowedPdfTypes == {"application/pdf"}

\* a variant that reports a file type that is not accepted as a server error
InvalidFileTypeAsServerError == [status |-> 500, body |-> [detail |-> "Invalid file type"]]

\* raise HTTPException(status_code=400, detail="Invalid file type ...")
InvalidFileType == [status |-> 400, body |-> [detail |-> "Invalid file type"]]

\* the answer of a handler whose work ran to its end
Answer(ran) ==
    IF ran.result.kind = "raise" THEN ServerError(ran.result.value)
    ELSE [status |-> 200, body |-> ran.result.value]

\* what a collaborator can answer
Outcomes == {"ok", "error", "invalid"}

\* URLs by what urlparse finds in them
Urls ==
    [scheme : {"", "http", "HTTPS", "ftp"}, netloc : {"", "example.com"},
     path : {"/r.jpg", "/page"}, malformed : {FALSE}]
    \cup {[scheme |-> "https", netloc |-> "example.com", path |-> "/R.PNG", malformed |-> FALSE],
          [scheme |-> "http", netloc |-> "[example.com", path |-> "/page", malformed |-> TRUE]}

\* the text embedded in a PDF: none, or the pages that have text under their page headings
PdfTexts == {[blank |-> TRUE, len |-> 0], [blank |-> FALSE, len |-> 20],
             [blank |-> FALSE, len |-> 50], [blank |-> FALSE, len |-> 51]}

\* longest list of texts in a batch
MaxTexts == 2

\* expense_type: str | None, in and outside EXPENSE_CATEGORIES
ExpenseTypes == {Null, Str(""), Str("food"), Str("groceries")}

\* an expense object as the model writes it, with and without a category
ReplyExpenses ==
    {MkRecord([amount |-> Num(FromInt(15)), category |-> c]) :
        c \in {Absent, Null, Str("food"), Str("transport"), Str("groceries")}}

\* the JSON values the model can reply with
Replies ==
    {JDict([expense |-> JDict(e), language_detected |-> Str("English")]) : e \in ReplyExpenses}
    \cup {JDict(e) : e \in ReplyExpenses}
    \cup {JDict([expenses |-> JList(<<JDict(e)>>), expense |-> JDict(<<>>)]) : e \in ReplyExpenses}
    \cup {JDict([expenses |-> JList(<<>>), expense |-> JDict(e)]) : e \in ReplyExpenses}
    \cup {JDict([expense |-> Null]), JDict([expenses |-> Null]), JList(<<>>)}

\* the requests: a URL, an uploaded file, a batch of texts, one text with a type hint
Requests ==
    {[kind |-> "url", url |-> url] : url \in Urls}
    \cup {[kind |-> "upload", content_type |-> ct, text |-> [blank |-> TRUE, len |-> 0]] :
             ct \in {"image/jpeg", "image/gif", "image/bmp", "text/plain"}}
    \cup {[kind |-> "upload", content_type |-> "application/pdf", text |-> text] : text \in PdfTexts}
    \cup {[kind |-> "batch", texts |-> texts] : texts \in SeqsUpTo({"taxi 15 dh", "lunch"}, MaxTexts)}
    \cup {[kind |-> "text", text |-> "taxi 15 dh", expense_type |-> ty] : ty \in ExpenseTypes}

InitReceipts ==
    /\ expenses = <<>>
    /\ group_by = "category"
    /\ threshold = DefaultThreshold
    /\ call = NoCall
    /\ ret = NoReturn
    /\ response = NoResponse
    /\ clock = 0
    /\ history = <<>>
    /\ request \in Requests
    /\ external = <<>>

\* POST /expenses/ocr/url
OcrFromUrl ==
    \E installed \in BOOLEAN, fetch \in {"ok", "ssl", "error"}, retry, vision \in {"ok", "error"},
       extract \in Outcomes :
        LET ran == ProcessReceiptFromUrl(request.url, installed, fetch, retry, vision, extract)
        IN  /\ call = NoCall
            /\ request.kind = "url"
            /\ call' = [op |-> "ocr_from_url"]
            /\ external' = ran.log
            /\ ret' = ran.result
            /\ response' = Answer(ran)
            /\ UNCHANGED <<expenses, group_by, threshold, clock, history, request>>

\* POST /expenses/ocr/upload
OcrUpload ==
    \E vision \in {"ok", "error"}, extract \in Outcomes :
        LET ran == ProcessReceipt(vision, extract)
            allowed == request.content_type \in AllowedImageTypes
        IN  /\ call = NoCall
            /\ request.kind = "upload"
            /\ call' = [op |-> "ocr_upload"]
            /\ external' = IF allowed THEN ran.log ELSE <<>>
            /\ ret' = IF allowed THEN ran.result ELSE NoReturn
            /\ response' = IF allowed THEN Answer(ran) ELSE InvalidFileType
            /\ UNCHANGED <<expenses, group_by, threshold, clock, history, request>>

\* POST /expenses/receipt/parse/upload
ParseReceiptUpload ==
    \E info, extraction, raster \in {"ok", "error"}, parse \in Outcomes :
        LET pdf     == request.content_type \in AllowedPdfTypes
            image   == request.content_type \in AllowedImageTypes
            ran     == IF pdf THEN ParsePdf(request.text, info, extraction, raster, parse)
                       ELSE ModelCall("gpt-4o", "receipt", parse, [source |-> "image_upload"])
        IN  /\ call = NoCall
            /\ request.kind = "upload"
            /\ call' = [op |-> "parse_receipt_upload"]
            /\ external' = IF pdf \/ image THEN ran.log ELSE <<>>
            /\ ret' = IF pdf \/ image THEN ran.result ELSE NoReturn
            /\ response' = IF pdf \/ image THEN Answer(ran) ELSE InvalidFileType
            /\ UNCHANGED <<expenses, group_by, threshold, clock, history, request>>

\* POST /expenses/pdf/info
GetPdfInformation ==
    \E info \in {"ok", "error"} :
        LET ran == PdfCall("pdf_info", "document", info, "info")
            pdf == request.content_type = "application/pdf"
        IN  /\ call = NoCall
            /\ request.kind = "upload"
            /\ call' = [op |-> "get_pdf_information"]
            /\ external' = IF pdf THEN ran.log ELSE <<>>
            /\ ret' = IF pdf THEN ran.result ELSE NoReturn
            /\ response' = IF pdf THEN Answer(ran) ELSE InvalidFileType
            /\ UNCHANGED <<expenses, group_by, threshold, clock, history, request>>

\* POST /expenses/extract/batch
ExtractBatchEndpoint ==
    \E outcomes \in [1..MaxTexts -> Outcomes] :
        LET ran == ExtractBatch(request.texts, outcomes)
        IN  /\ call = NoCall
            /\ request.kind = "batch"
            /\ call' = [op |-> "extract_batch_endpoint"]
            /\ external' = ran.log
            /\ ret' = ran.result
            /\ response' = Answer(ran)
            /\ UNCHANGED <<expenses, group_by, threshold, clock, history, request>>

\* POST /expenses/extract
ExtractSingle ==
    \E outcome \in Outcomes, result \in Replies :
        LET ran == ExtractSingleExpense(request.text, request.expense_type, outcome, result)
        IN  /\ call = NoCall
            /\ request.kind = "text"
            /\ call' = [op |-> "extract_single"]
            /\ external' = ran.log
            /\ ret' = ran.result
            /\ response' = Answer(ran)
            /\ UNCHANGED <<expenses, group_by, threshold, clock, history, request>>

NextReceipts ==
    \/ OcrFromUrl
    \/ OcrUpload
    \/ ParseReceiptUpload
    \/ GetPdfInformation
    \/ ExtractBatchEndpoint
    \/ ExtractSingle

SpecReceipts == InitReceipts /\ [][NextReceipts]_vars

(***************************************************************************)
(* Properties.  A property reads the request (expenses, group_by,          *)
(* threshold), the operation that answered it (call) and what it returned  *)
(* (ret, response).  Sums, means and z values are floating point values,   *)
(* computed in input order as Python computes them.                        *)
(***************************************************************************)
Analyzed == call.op \in {"analyze_expenses", "get_analytics"}

Detected == call.op \in {"detect_anomalies", "get_anomalies"}

N == Len(expenses)

\* the amount of a record, 0 when the record has none or a null one
AmountOrZero(e) ==
    IF "amount" \in DOMAIN e /\ e["amount"].t = "num" THEN FloatOf(e["amount"]) ELSE Zero

RefAmounts == [i \in 1..N |-> AmountOrZero(expenses[i])]

IsInteger(x) == x.e >= 0 \/ x.m % Pow2(-x.e) = 0

\* C1: for a non-empty record sequence analyze_expenses returns total_amount equal to the
\* sum of the amounts, a missing or null amount counting as 0, rounded to 2 decimals
C1_TotalIsRoundedSum ==
    (Analyzed /\ N > 0) =>
        /\ ret.kind = "return"
        /\ ret.value.total_amount = Dec(Hundredths(FSum(RefAmounts)), 100)

\* a total that the rounding changed, over records with a missing and a null amount
C1_Witness ==
    /\ Analyzed
    /\ \E i \in 1..N : "amount" \notin DOMAIN expenses[i]
    /\ \E i \in 1..N : "amount" \in DOMAIN expenses[i] /\ expenses[i]["amount"] = Null
    /\ ret.value.total_amount # FSum(RefAmounts)

BreakdownAmounts == [i \in 1..Len(ret.value.breakdown) |-> ret.value.breakdown[i].v.amount]

\* C2 as stated: for a non-empty record sequence and every grouping field the amounts of
\* the breakdown sum to the returned total_amount
C2_BreakdownSumsToTotal ==
    (Analyzed /\ N > 0) => FSum(BreakdownAmounts) = ret.value.total_amount

\* C2 amended: when every amount is an integer (or missing or null) the amounts of the
\* breakdown sum to the returned total_amount, for every grouping field
C2_IntegerBreakdownSumsToTotal ==
    (Analyzed /\ N > 0 /\ \A i \in 1..N : IsInteger(RefAmounts[i])) =>
        /\ ret.kind = "return"
        /\ FSum(BreakdownAmounts) = ret.value.total_amount

\* integer amounts in two groups or more, one group holding two records
C2_Witness ==
    /\ Analyzed
    /\ N > 0
    /\ \A i \in 1..N : IsInteger(RefAmounts[i])
    /\ Len(ret.value.breakdown) >= 2
    /\ \E i \in 1..Len(ret.value.breakdown) : ret.value.breakdown[i].v.count >= 2
    /\ ret.value.total_amount # Zero

\* C3: analyze_expenses on no records returns success, total 0, count 0, an empty breakdown
\* and exactly one insight, for every group_by and currency
C3_EmptyAnalysis ==
    (Analyzed /\ N = 0) =>
        /\ ret.kind = "return"
        /\ ret.value.success
        /\ ret.value.total_amount = Zero
        /\ ret.value.count = 0
        /\ ret.value.breakdown = <<>>
        /\ Len(ret.value.insights) = 1
        /\ ret.value.currency = call.currency

\* the empty sequence analysed with a currency other than the default and a grouping
\* field other than the default
C3_Witness ==
    /\ call.op = "analyze_expenses"
    /\ N = 0
    /\ call.currency = "EUR"
    /\ group_by = "project"

AllIdentical == \A i, j \in 1..N : RefAmounts[i] = RefAmounts[j]

\* C4: detect_anomalies returns the empty sequence for fewer than 3 records and for
\* records whose amounts are all identical, for every threshold
C4_NoAnomaliesWithoutVariance ==
    (Detected /\ (N < 3 \/ AllIdentical)) => ret = Return(<<>>)

\* population mean and standard deviation (divisor N) of the amounts
PopMean == FDiv(FSum(RefAmounts), FromInt(N))

PopStdDev ==
    LET mean == PopMean
        dev  == [i \in 1..N |-> FSub(RefAmounts[i], mean)]
    IN  FSqrt(FDiv(FSum([i \in 1..N |-> FMul(dev[i], dev[i])]), FromInt(N)))

\* |amount - mean| / std_dev of every record
ZValues ==
    LET mean    == PopMean
        std_dev == PopStdDev
    IN  [i \in 1..N |-> FDiv(FAbs(FSub(RefAmounts[i], mean)), std_dev)]

\* the positions of the records whose value in z is above the bound, ascending
Above(z, bound) == SelectSeq([i \in 1..N |-> i], LAMBDA i : FGt(z[i], bound))

\* an anomaly record without the two keys the function sets
Strip(a) == [k \in DOMAIN a \ {"z_score", "deviation"} |-> a[k]]

\* C5: for 3 records or more with amounts not all identical, detect_anomalies returns
\* exactly the records whose z value is strictly above the threshold, in input order
C5_FlagsExactlyAboveThreshold ==
    (Detected /\ N >= 3 /\ ~AllIdentical) =>
        LET flagged == Above(ZValues, threshold)
        IN  /\ ret.kind = "return"
            /\ Len(ret.value) = Len(flagged)
            /\ \A j \in 1..Len(flagged) : Strip(ret.value[j]) = expenses[flagged[j]]

\* some records are flagged, some are not, and one that is not has z equal to the threshold
C5_Witness ==
    /\ Detected
    /\ N >= 3
    /\ ~AllIdentical
    /\ Len(ret.value) \in 1..(N - 1)
    /\ \E i \in 1..N : ZValues[i] = threshold

HasDate(e) == "date" \in DOMAIN e /\ e["date"].t = "str" /\ e["date"].s # ""

RefDates == {expenses[i]["date"].s : i \in {j \in 1..N : HasDate(expenses[j])}}

\* the k-th date in ascending order
NthDate(k) == CHOOSE d \in RefDates : Cardinality({x \in RefDates : StrRank(x) < StrRank(d)}) = k - 1

\* the sum of the per-date totals of the dates number from..to
HalfSum(from, to) ==
    FSum([i \in 1..(to - from + 1) |-> Lookup(ret.value.daily_totals, Str(NthDate(from + i - 1)))])

HasTrend == \E i \in 1..Len(ret.value.insights) : ret.value.insights[i].kind \in {"upward", "downward"}

\* C6: for a non-empty record sequence the insights hold a trend line if and only if the
\* records carry two distinct dates or more and the sums of the two date-ordered halves differ
C6_TrendIffHalvesDiffer ==
    (Analyzed /\ N > 0) =>
        /\ ret.kind = "return"
        /\ HasTrend <=>
              /\ Cardinality(RefDates) >= 2
              /\ HalfSum(1, Cardinality(RefDates) \div 2)
                    # HalfSum(Cardinality(RefDates) \div 2 + 1, Cardinality(RefDates))

\* a downward trend over three distinct dates
C6_Witness ==
    /\ Analyzed
    /\ Cardinality(RefDates) = 3
    /\ \E i \in 1..Len(ret.value.insights) : ret.value.insights[i].kind = "downward"

ResultKeys == {"success", "total_amount", "currency", "count", "breakdown", "insights",
               "payment_summary", "daily_totals"}

\* C7: every result of analyze_expenses, for empty and non-empty input, and the body
\* answered by POST /expenses/analytics, has the eight keys of the result
C7_ResultShape ==
    (Analyzed /\ ret.kind = "return") =>
        /\ ResultKeys \subseteq DOMAIN ret.value
        /\ call.op = "get_analytics" => ResultKeys \subseteq DOMAIN response.body

\* C8 as stated: a record is returned if and only if its z_score, the z value rounded to
\* 2 decimals, is strictly above the threshold; every returned z_score is above the threshold
C8_ZScoreAboveThreshold ==
    (Detected /\ N >= 3 /\ ~AllIdentical) =>
        /\ LET z == ZValues
           IN  Len(ret.value) = Len(Above([i \in 1..N |-> Round2(z[i])], threshold))
        /\ \A j \in 1..Len(ret.value) : FGt(FloatOf(ret.value[j]["z_score"]), threshold)

\* C8 amended: a record is returned if and only if its z value, not rounded, is strictly
\* above the threshold; its z_score is that z value rounded to 2 decimals, is not
\* negative and is not below the threshold rounded to 2 decimals (it can equal it)
C8_ZScoreIsRoundedZ ==
    (Detected /\ N >= 3 /\ ~AllIdentical) =>
        LET z       == ZValues
            flagged == Above(z, threshold)
        IN  /\ Len(ret.value) = Len(flagged)
            /\ \A j \in 1..Len(ret.value) :
                  LET z_score == FloatOf(ret.value[j]["z_score"])
                  IN  /\ ret.value[j]["z_score"].t = "num"
                      /\ z_score = Dec(Hundredths(z[flagged[j]]), 100)
                      /\ z_score.m >= 0
                      /\ ~FLt(z_score, Dec(Hundredths(threshold), 100))

\* a returned record whose z_score equals the threshold
C8_Witness ==
    /\ Detected
    /\ N >= 3
    /\ ~AllIdentical
    /\ \E j \in 1..Len(ret.value) :
          /\ FloatOf(ret.value[j]["z_score"]) = threshold
          /\ FGt(ZValues[Above(ZValues, threshold)[j]], threshold)

\* C9: a returned record has deviation "high" when its amount is above the mean and "low"
\* otherwise; with a threshold that is not negative no returned amount equals the mean
C9_DeviationSide ==
    (Detected /\ ret.kind = "return" /\ ret.value # <<>>) =>
        LET mean == PopMean
        IN  \A j \in 1..Len(ret.value) :
                /\ ret.value[j]["deviation"] =
                      Str(IF FLt(mean, AmountOrZero(ret.value[j])) THEN "high" ELSE "low")
                /\ threshold.m >= 0 => AmountOrZero(ret.value[j]) # mean

\* a high record, a low record below the mean and a low record at the mean are returned
C9_Witness ==
    /\ Detected
    /\ \E j \in 1..Len(ret.value) : ret.value[j]["deviation"] = Str("high")
    /\ \E j \in 1..Len(ret.value) :
          ret.value[j]["deviation"] = Str("low") /\ FLt(AmountOrZero(ret.value[j]), PopMean)
    /\ \E j \in 1..Len(ret.value) :
          ret.value[j]["deviation"] = Str("low") /\ AmountOrZero(ret.value[j]) = PopMean

\* C10: analyze_expenses returns a result for every sequence of loosely typed records
\* and never raises; the endpoint then answers 200
C10_AnalyzeNeverRaises ==
    Analyzed =>
        /\ ret.kind = "return"
        /\ call.op = "get_analytics" => response.status = 200

(***************************************************************************)
(* Export properties                                                       *)
(***************************************************************************)
CsvExported == call.op \in {"export_to_csv", "export_csv"}

ExcelExported == call.op \in {"export_to_excel", "export_excel_endpoint"}

\* C11: export_to_csv on an empty record sequence returns the empty string, a text without
\* any line and so without a header row, and POST /expenses/export/csv answers 200 with it
C11_EmptyCsvIsEmptyString ==
    (CsvExported /\ N = 0) =>
        /\ ret.kind = "return"
        /\ Len(ret.value) = 0
        /\ call.op = "export_csv" => (response.status = 200 /\ Len(response.body) = 0)

C11_Witness == call.op = "export_csv" /\ N = 0 /\ response.status = 200

\* csv.DictReader: the first line names the columns, every later line that has a field is a
\* record
ParseCsv(text) ==
    IF Len(text) = 0 THEN <<>>
    ELSE LET header == text[1]
             lines  == SelectSeq(Tail(text), LAMBDA line : Len(line) > 0)
         IN  [i \in 1..Len(lines) |->
                [k \in {header[j].s : j \in 1..Len(header)} |->
                    lines[i][CHOOSE j \in 1..Len(header) : header[j].s = k]]]

\* C12 as stated: for a non-empty record sequence, parsing the text of export_to_csv by header
\* yields one record per input record, in order, whose value for a column is the input
\* record's value for that key, and the empty string for a key the record lacks
C12_CsvRoundTrip ==
    (CsvExported /\ N > 0) =>
        LET parsed == ParseCsv(ret.value)
        IN  /\ Len(parsed) = N
            /\ \A i \in 1..N : \A k \in AllKeys(expenses) :
                   /\ k \in DOMAIN parsed[i]
                   /\ parsed[i][k] = IF k \in DOMAIN expenses[i] THEN expenses[i][k] ELSE Str("")

\* the text a value is written as: str(value), nothing for null
TextOf(v) == IF v.t = "num" THEN StrOf(v) ELSE IF v.t = "null" THEN Str("") ELSE v

\* C12 amended: when some record has a key, parsing the text of export_to_csv by header yields
\* one record per input record, in order, whose value for a column is the text of the input
\* record's value for that key, the empty string for a null value and for a key the record
\* lacks; when no record has a key, parsing yields no record
C12_CsvRoundTripAsText ==
    (CsvExported /\ N > 0) =>
        LET parsed == ParseCsv(ret.value)
            keys   == AllKeys(expenses)
        IN  IF keys = {} THEN Len(parsed) = 0
            ELSE /\ Len(parsed) = N
                 /\ \A i \in 1..N :
                        /\ DOMAIN parsed[i] = keys
                        /\ \A k \in keys :
                               parsed[i][k] = IF k \in DOMAIN expenses[i] THEN TextOf(expenses[i][k])
                                              ELSE Str("")

C12_Witness ==
    /\ CsvExported
    /\ N = 3
    /\ Len(ParseCsv(ret.value)) = 3
    /\ \E i \in 1..N : "amount" \in DOMAIN expenses[i] /\ expenses[i]["amount"].t = "null"
    /\ \E i \in 1..N : "amount" \in DOMAIN expenses[i] /\ expenses[i]["amount"].t = "num"
    /\ \E i \in 1..N : DOMAIN expenses[i] = {}

\* C13: for a non-empty record sequence the text of export_to_csv is one header row whose
\* columns are the union of the keys of all records, each once, in ascending order, followed
\* by exactly one row per record in input order
C13_CsvHeaderAndRows ==
    (CsvExported /\ N > 0) =>
        LET text   == ret.value
            header == text[1]
        IN  /\ Len(text) = N + 1
            /\ {header[j].s : j \in 1..Len(header)} = AllKeys(expenses)
            /\ \A j, k \in 1..Len(header) : j < k => StrRank(header[j].s) < StrRank(header[k].s)
            /\ \A i \in 1..N :
                   /\ Len(text[i + 1]) = Len(header)
                   /\ \A j \in 1..Len(header) :
                          text[i + 1][j] = IF header[j].s \in DOMAIN expenses[i]
                                           THEN TextOf(expenses[i][header[j].s]) ELSE Str("")

C13_Witness ==
    /\ call.op = "export_to_csv"
    /\ N = 2
    /\ "vendor" \in DOMAIN expenses[1]
    /\ "Tax" \in DOMAIN expenses[2]
    /\ Len(ret.value) = 3
    /\ Len(ret.value[1]) = 6

\* C14: export_to_excel on an empty record sequence, for every include_summary and title,
\* produces a workbook with exactly one sheet, Expenses, that holds only the placeholder
\* notice: no title row, no header row, no data row, no Summary sheet
C14_EmptyWorkbook ==
    (ExcelExported /\ N = 0) =>
        /\ ret.kind = "return"
        /\ Len(ret.value) = 1
        /\ ret.value[1].title = "Expenses"
        /\ Len(ret.value[1].rows) = 1
        /\ Len(ret.value[1].rows[1]) = 1
        /\ ret.value[1].rows[1][1].value = Str("No expenses to export")

C14_Witness ==
    /\ ExcelExported
    /\ N = 0
    /\ call.include_summary
    /\ call.title # DefaultTitle
    /\ Len(ret.value) = 1

\* the key whose header text is text
KeyOf(text) == CHOOSE k \in ExportKeys : HeaderText(k) = text

\* C15: for a non-empty record sequence the columns of the Expenses sheet are amount,
\* currency, category, description, date, payment_method in that order, then every other key
\* of any record in ascending order, no key twice; and the sheet has exactly one data row per
\* record, in input order, directly below the header row
C15_ExcelColumnsAndRows ==
    (ExcelExported /\ N > 0) =>
        /\ ret.kind = "return"
        /\ LET sheet   == ret.value[1]
               header  == sheet.rows[4]
               columns == [j \in 1..Len(header) |-> KeyOf(header[j].value.s)]
               others  == AllKeys(expenses) \ {"amount", "currency", "category", "description",
                                               "date", "payment_method"}
           IN  /\ sheet.title = "Expenses"
               /\ Len(columns) = 6 + Cardinality(others)
               /\ SubSeq(columns, 1, 6) = <<"amount", "currency", "category", "description",
                                            "date", "payment_method">>
               /\ {columns[j] : j \in 7..Len(columns)} = others
               /\ \A j, k \in 7..Len(columns) : j < k => StrRank(columns[j]) < StrRank(columns[k])
               /\ Cardinality({columns[j] : j \in 1..Len(columns)}) = Len(columns)
               /\ Len(sheet.rows) = 4 + N
               /\ \A i \in 1..N :
                      /\ Len(sheet.rows[4 + i]) = Len(columns)
                      /\ \A j \in 1..Len(columns) :
                             sheet.rows[4 + i][j].value =
                                 IF columns[j] \in DOMAIN expenses[i] THEN expenses[i][columns[j]]
                                 ELSE Str("")

C15_Witness ==
    /\ call.op = "export_to_excel"
    /\ N = 3
    /\ {"Tax", "vendor", "project"} \subseteq AllKeys(expenses)
    /\ Len(ret.value[1].rows) = 7
    /\ Len(ret.value[1].rows[4]) = 9

HttpUrl(url) == ~url.malformed /\ url.scheme \in {"http", "https", "HTTPS"} /\ url.netloc # ""

\* C17: when the URL given to POST /expenses/ocr/url has no http or https scheme together
\* with a host, process_receipt_from_url fails before any webpage fetch and before any model
\* call is issued, and the endpoint answers with status 500
C17_InvalidUrlFailsBeforeAnyRequest ==
    (call.op = "ocr_from_url" /\ ~HttpUrl(request.url)) =>
        /\ external = <<>>
        /\ ret = Raise("ValueError")
        /\ response.status = 500

C17_Witness ==
    /\ call.op = "ocr_from_url"
    /\ request.url.scheme = "ftp"
    /\ request.url.netloc = "example.com"
    /\ external = <<>>
    /\ response.status = 500

\* C18: within one extraction or OCR operation every external request (model call, webpage
\* fetch, page rasterization) is issued at most once, and a request that failed is never
\* issued again
C18_NoRequestIssuedTwice ==
    \A i, j \in 1..Len(external) :
        i < j => ~(external[i].kind = external[j].kind /\ external[i].target = external[j].target)

Accepted(op) ==
    CASE op = "ocr_upload"           -> {"image/jpeg", "image/png", "image/webp", "image/gif"}
      [] op = "parse_receipt_upload" -> {"image/jpeg", "image/png", "image/webp", "image/gif",
                                         "application/pdf"}
      [] op = "get_pdf_information"  -> {"application/pdf"}

PdfUpload == call.op = "parse_receipt_upload" /\ request.content_type = "application/pdf"

\* the extracted text is non-blank and longer than 50 characters
LongText == ~request.text.blank /\ request.text.len > 50

TextParserCalled ==
    \E i \in 1..Len(external) :
        external[i].kind = "model" /\ external[i].target = <<"gpt-4o-mini", "receipt">>

ImageParserCalled ==
    \E i \in 1..Len(external) :
        external[i].kind = "model" /\ external[i].target = <<"gpt-4o", "receipt">>

Rasterized == \E i \in 1..Len(external) : external[i].kind = "rasterize"

\* C20 as stated: for a PDF upload to parse_receipt_upload the embedded text is always
\* extracted first and then exactly one of two paths runs: the text parser with source
\* "pdf_text" and no rasterization when the text is non-blank and longer than 50 characters,
\* otherwise the rasterization of page 0 and the image parser with source "pdf_ocr"
C20_PdfExactlyOnePath ==
    PdfUpload =>
        /\ \E i \in 1..Len(external) :
              /\ external[i].kind = "pdf_text"
              /\ \A j \in 1..Len(external) : external[j].kind \in {"model", "rasterize"} => i < j
        /\ IF LongText THEN TextParserCalled /\ ~Rasterized /\ ~ImageParserCalled
           ELSE Rasterized /\ ImageParserCalled /\ ~TextParserCalled
        /\ response.status = 200 => ret.value.source = IF LongText THEN "pdf_text" ELSE "pdf_ocr"

\* C20 amended: for a PDF upload to parse_receipt_upload the document is inspected first
\* (get_pdf_info) and, when that succeeds, its embedded text is extracted; a failure of either
\* ends the request.  After the extraction exactly one of two paths is entered: the text
\* parser, without rasterization, when the text is non-blank and longer than 50 characters;
\* otherwise the rasterization of page 0 and, when it succeeds, the image parser.  The two
\* parsers are never both called, and an answer of status 200 has source "pdf_text" on the
\* first path and "pdf_ocr" on the second
C20_PdfPathsAfterExtraction ==
    PdfUpload =>
        LET n == Len(external)
        IN  /\ n >= 1
            /\ external[1].kind = "pdf_info"
            /\ IF external[1].outcome # "ok" THEN n = 1
               ELSE /\ n >= 2
                    /\ external[2].kind = "pdf_text"
                    /\ IF external[2].outcome # "ok" THEN n = 2
                       ELSE IF LongText
                            THEN n = 3 /\ TextParserCalled /\ ~Rasterized /\ ~ImageParserCalled
                            ELSE /\ n >= 3
                                 /\ external[3].kind = "rasterize"
                                 /\ external[3].target = "page 0"
                                 /\ ~TextParserCalled
                                 /\ IF external[3].outcome = "ok" THEN n = 4 /\ ImageParserCalled
                                    ELSE n = 3
            /\ ~(TextParserCalled /\ ImageParserCalled)
            /\ response.status = 200 => ret.value.source = IF LongText THEN "pdf_text" ELSE "pdf_ocr"

C20_Witness ==
    /\ PdfUpload
    /\ ~request.text.blank
    /\ request.text.len = 50
    /\ Len(external) = 4
    /\ ImageParserCalled
    /\ response.status = 200
    /\ ret.value.source = "pdf_ocr"

(***************************************************************************)
(* Properties of the extraction of one expense                             *)
(***************************************************************************)
\* C21: when an expense_type (a non-empty string) is provided to extract_single_expense,
\* whatever the model replies, the category of the returned data and the returned expense_type both equal the
\* provided expense_type
C21_ProvidedTypeIsTheCategory ==
    (call.op = "extract_single" /\ Truthy(request.expense_type) /\ ret.kind = "return") =>
        /\ Get(ret.value.data, "category") = request.expense_type
        /\ ret.value.expense_type = request.expense_type

(***************************************************************************)
(* Further properties of analyze_expenses and detect_anomalies             *)
(***************************************************************************)
\* the key under which a record is grouped by a field: its value, or the default when the
\* field is missing, null or empty
KeyUnder(e, field, default) ==
    IF field \in DOMAIN e /\ Truthy(e[field]) THEN e[field] ELSE Str(default)

\* the position of the first record grouped under key
FirstSeen(key, field, default) ==
    CHOOSE i \in 1..N :
        /\ KeyUnder(expenses[i], field, default) = key
        /\ \A j \in 1..(i - 1) : KeyUnder(expenses[j], field, default) # key

\* every other entry of d has a smaller amount than key's, or the same amount and a key
\* seen later in the input
FirstOfTheGreatest(d, amount(_), key, field, default) ==
    \A j \in 1..Len(d) :
        d[j].k # key =>
            \/ FLt(amount(d[j].v), amount(Lookup(d, key)))
            \/ /\ amount(d[j].v) = amount(Lookup(d, key))
               /\ FirstSeen(key, field, default) < FirstSeen(d[j].k, field, default)

\* C22: when several groups have the same maximal accumulated amount the "Highest spending"
\* insight names the one whose key was seen first in the input, and when several payment
\* methods have the same maximal amount the "Most used payment" insight names the one seen
\* first
C22_TiesGoToFirstSeen ==
    (Analyzed /\ N > 0) =>
        LET r == ret.value
        IN  /\ r.insights[1].kind = "highest"
            /\ FirstOfTheGreatest(r.breakdown, LAMBDA v : v.amount, r.insights[1].key,
                                  group_by, "other")
            /\ r.insights[2].kind = "payment"
            /\ FirstOfTheGreatest(r.payment_summary, LAMBDA v : v, r.insights[2].key,
                                  "payment_method", "unknown")

\* two groups and two payment methods share the greatest amount
C22_Witness ==
    /\ Analyzed
    /\ N > 0
    /\ LET r == ret.value
       IN  /\ \E j \in 1..Len(r.breakdown) :
                  /\ r.breakdown[j].k # r.insights[1].key
                  /\ r.breakdown[j].v.amount = Lookup(r.breakdown, r.insights[1].key).amount
           /\ \E j \in 1..Len(r.payment_summary) :
                  /\ r.payment_summary[j].k # r.insights[2].key
                  /\ r.payment_summary[j].v = Lookup(r.payment_summary, r.insights[2].key)

\* C23: for every non-empty record sequence the insights are, in this order, the
\* highest-spending insight, the most-used-payment insight, the average insight (always
\* present, the total divided by the number of records) and then at most one trend insight:
\* 3 or 4 entries, never fewer
C23_InsightsInOrder ==
    (Analyzed /\ N > 0) =>
        LET insights == ret.value.insights
        IN  /\ Len(insights) \in {3, 4}
            /\ insights[1].kind = "highest"
            /\ insights[2].kind = "payment"
            /\ insights[3].kind = "average"
            /\ insights[3].cents = Hundredths(FDiv(FSum(RefAmounts), FromInt(N)))
            /\ Len(insights) = 4 => insights[4].kind \in {"upward", "downward"}

\* four insights, and an average that is not a whole number
C23_Witness ==
    /\ Analyzed
    /\ N = 3
    /\ Len(ret.value.insights) = 4
    /\ ret.value.insights[3].cents % 100 # 0

\* the total of a date: the amounts of the records that carry it, added in input order
DateTotal(d) ==
    FSum([i \in 1..Len(SelectSeq(expenses, LAMBDA e : HasDate(e) /\ e["date"].s = d)) |->
             AmountOrZero(SelectSeq(expenses, LAMBDA e : HasDate(e) /\ e["date"].s = d)[i])])

\* the sum of the totals of the dates number from..to in ascending order
DatesSum(from, to) == FSum([i \in 1..(to - from + 1) |-> DateTotal(NthDate(from + i - 1))])

\* C24: when a trend insight is emitted, the distinct dates in ascending order are split at
\* index len(dates)//2 (the extra date of an odd number of dates is in the second half), the
\* total of each date belongs to exactly one half, and the insight says upward exactly when
\* the sum of the second half is greater than the sum of the first half and downward exactly
\* when it is smaller
C24_TrendFollowsTheHalves ==
    (Analyzed /\ N > 0 /\ HasTrend) =>
        LET dates       == Cardinality(RefDates)
            half        == dates \div 2
            first_half  == DatesSum(1, half)
            second_half == DatesSum(half + 1, dates)
            trend       == ret.value.insights[Len(ret.value.insights)].kind
        IN  /\ dates >= 2
            /\ trend = "upward" <=> FGt(second_half, first_half)
            /\ trend = "downward" <=> FLt(second_half, first_half)

\* an upward trend over three dates, the middle date adding to the second half
C24_Witness ==
    /\ Analyzed
    /\ Cardinality(RefDates) = 3
    /\ ret.value.insights[Len(ret.value.insights)].kind = "upward"
    /\ FGt(DatesSum(2, 3), DatesSum(3, 3))

\* the records grouped under key when keyOf names the group of a record, in input order
Members(key, keyOf(_)) == SelectSeq(expenses, LAMBDA e : keyOf(e) = key)

\* the breakdown has one entry for each group that keyOf finds in the records, the entries
\* are in the order in which the groups first occur, and an entry holds the sum of the
\* amounts and the number of the records of its group
BreakdownGroups(b, keyOf(_)) ==
    /\ \A i, j \in 1..Len(b) : i # j => b[i].k # b[j].k
    /\ {b[i].k : i \in 1..Len(b)} = {keyOf(expenses[i]) : i \in 1..N}
    /\ \A i, j \in 1..Len(b) :
          i < j => \E m \in 1..N :
                      /\ keyOf(expenses[m]) = b[i].k
                      /\ \A n \in 1..m : keyOf(expenses[n]) # b[j].k
    /\ \A i \in 1..Len(b) :
          LET members == Members(b[i].k, keyOf)
          IN  /\ b[i].v.count = Len(members)
              /\ b[i].v.amount = FSum([m \in 1..Len(members) |-> AmountOrZero(members[m])])

\* the group of a record when only a missing or null field counts as lacking
KeyIfPresent(e) ==
    IF group_by \in DOMAIN e /\ e[group_by] # Null THEN e[group_by] ELSE Str("other")

\* C25 as stated: the breakdown has exactly one key per distinct group value occurring in
\* the records, records lacking the field being grouped under "other", keys in first-seen
\* order, each with the sum of the amounts and the number of its group's records
C25_BreakdownByValue ==
    (Analyzed /\ N > 0) => BreakdownGroups(ret.value.breakdown, KeyIfPresent)

\* C25 amended: a record whose grouping field is missing, null or empty (any value that
\* Python takes for false) is grouped under "other", together with the records whose field
\* is "other"; the breakdown has exactly one key per group, keys in first-seen order, each
\* with the sum of the amounts and the number of its group's records
C25_BreakdownByGroup ==
    (Analyzed /\ N > 0) =>
        BreakdownGroups(ret.value.breakdown, LAMBDA e : KeyUnder(e, group_by, "other"))

\* a category that is missing, one that is empty and one that is "other" in one group
C25_Witness ==
    /\ Analyzed
    /\ group_by = "category"
    /\ N = 3
    /\ \E i \in 1..N : "category" \notin DOMAIN expenses[i]
    /\ \E i \in 1..N : "category" \in DOMAIN expenses[i] /\ expenses[i]["category"] = Str("")
    /\ \E i \in 1..N : "category" \in DOMAIN expenses[i] /\ expenses[i]["category"] = Str("other")
    /\ Len(ret.value.breakdown) = 1
    /\ ret.value.breakdown[1].v.count = 3

\* the amounts of a dict of numbers, in the order of its keys
AmountsOf(d) == [i \in 1..Len(d) |-> d[i].v]

RECURSIVE CountTo(_, _)
CountTo(b, n) == IF n = 0 THEN 0 ELSE CountTo(b, n - 1) + b[n].v.count

\* C27 as stated: in every result of analyze_expenses on a non-empty record sequence count
\* equals the number of records and the sum of the counts of the breakdown, and the amounts
\* of payment_summary and the amounts of daily_totals each sum to the same total as the
\* amounts of the breakdown
C27_EachRecordOnceInEverySum ==
    (Analyzed /\ N > 0) =>
        LET r == ret.value
        IN  /\ r.count = N
            /\ r.count = CountTo(r.breakdown, Len(r.breakdown))
            /\ FSum(AmountsOf(r.payment_summary)) = FSum(BreakdownAmounts)
            /\ FSum(AmountsOf(r.daily_totals)) = FSum(BreakdownAmounts)

\* C27 amended: count equals the number of records and the sum of the counts of the
\* breakdown, always; when every amount is an integer (or missing or null) the amounts of
\* payment_summary, of daily_totals and of the breakdown sum to the same total, the sum of
\* the amounts of the records
C27_EachRecordOnce ==
    (Analyzed /\ N > 0) =>
        LET r == ret.value
        IN  /\ r.count = N
            /\ r.count = CountTo(r.breakdown, Len(r.breakdown))
            /\ (\A i \in 1..N : IsInteger(RefAmounts[i])) =>
                  /\ FSum(AmountsOf(r.payment_summary)) = FSum(RefAmounts)
                  /\ FSum(AmountsOf(r.daily_totals)) = FSum(RefAmounts)
                  /\ FSum(BreakdownAmounts) = FSum(RefAmounts)

\* three records with integer amounts: two groups, two payment methods, two dates
C27_Witness ==
    /\ Analyzed
    /\ N = 3
    /\ \A i \in 1..N : IsInteger(RefAmounts[i]) /\ RefAmounts[i] # Zero
    /\ Len(ret.value.breakdown) = 2
    /\ Len(ret.value.payment_summary) = 2
    /\ Len(ret.value.daily_totals) = 2

\* C28: with the default threshold 2.0 detect_anomalies returns an empty sequence for every
\* input of fewer than 6 records, whatever their amounts (the z value of one record among N
\* never exceeds the square root of N - 1), and the anomalies endpoint then answers count 0
C28_NoAnomaliesBelowSixRecords ==
    (Detected /\ N < 6 /\ threshold = DefaultThreshold) =>
        /\ ret = Return(<<>>)
        /\ call.op = "get_anomalies" => response.status = 200 /\ response.body.count = 0

\* every returned record holds the keys and values of the record it was made from, and
\* z_score and deviation as the function computes them for that record
AnomaliesCopyTheirRecords ==
    (Detected /\ ret.kind = "return" /\ ret.value # <<>>) =>
        LET z       == ZValues
            flagged == Above(z, threshold)
        IN  /\ Len(ret.value) = Len(flagged)
            /\ \A j \in 1..Len(ret.value) :
                  LET a == ret.value[j]
                      e == expenses[flagged[j]]
                  IN  /\ DOMAIN a = DOMAIN e \cup {"z_score", "deviation"}
                      /\ \A k \in DOMAIN e \ {"z_score", "deviation"} : a[k] = e[k]
                      /\ a["z_score"] = Num(Round2(z[flagged[j]]))
                      /\ a["deviation"] =
                            Str(IF FGt(AmountOrZero(e), PopMean) THEN "high" ELSE "low")

\* C29: analyze_expenses and detect_anomalies leave the caller's record sequence and every
\* record in it unchanged (no key added, removed or modified), and each record returned by
\* detect_anomalies is a new record holding every key and value of its input record other
\* than z_score and deviation, which are set by the function
C29_InputsUnchanged == [][expenses' = expenses]_vars /\ []AnomaliesCopyTheirRecords

\* a record that carried a z_score of 9 and a deviation is returned with the computed ones,
\* and the request still holds it as it was
C29_Witness ==
    /\ Detected
    /\ ret.kind = "return"
    /\ \E j \in 1..Len(ret.value) :
          /\ ret.value[j]["z_score"] # Num(FromInt(9))
          /\ ret.value[j]["deviation"] = Str("high")
          /\ \E i \in 1..N :
                /\ "z_score" \in DOMAIN expenses[i]
                /\ expenses[i]["z_score"] = Num(FromInt(9))
                /\ expenses[i]["deviation"] = Str("low")
                /\ Strip(ret.value[j]) = Strip(expenses[i])

(***************************************************************************)
(* Properties of generate_summary                                          *)
(***************************************************************************)
\* the analysis that generate_summary formats: analyze_expenses(expenses)
Analytics(exps) == AnalyzeExpenses(exps, "category", DefaultCurrency).value

\* C26: in the text of generate_summary the percentage shown for a category is that
\* category's amount divided by the total times 100 whenever the total is not 0, and 0 when
\* the total is 0; no record sequence, the empty one included, causes a division by zero
C26_PercentageOfTotal ==
    \A i \in 1..Len(history) :
        history[i].op = "generate_summary" =>
            LET a     == Analytics(history[i].args[1])
                lines == history[i].result.value.categories
            IN  /\ history[i].result.kind = "return"
                /\ Len(lines) = Len(a.breakdown)
                /\ \A k \in 1..Len(lines) :
                      lines[k].pct =
                          PctText(IF a.total_amount # Zero
                                  THEN FMul(FDiv(a.breakdown[k].v.amount, a.total_amount),
                                            FromInt(100))
                                  ELSE Zero)

(***************************************************************************)
(* Properties of extract_batch                                             *)
(***************************************************************************)
\* C30: extract_batch processes every text of the batch even when the extraction of an
\* earlier text fails: its result has exactly one entry per input text, in input order, each
\* marked success or failure; total is the number of texts, failed the number of failure
\* entries, processed the number of success entries, and processed + failed = total
C30_BatchProcessesEveryText ==
    call.op = "extract_batch_endpoint" =>
        /\ ret.kind = "return"
        /\ LET r     == ret.value
               texts == request.texts
           IN  /\ Len(external) = Len(texts)
               /\ Len(r.results) = Len(texts)
               /\ \A i \in 1..Len(texts) :
                     /\ r.results[i].input = texts[i]
                     /\ external[i].target[2] = texts[i]
                     /\ r.results[i].success \in BOOLEAN
                     /\ r.results[i].success <=> external[i].outcome = "ok"
               /\ r.total = Len(texts)
               /\ r.failed = Cardinality({i \in 1..Len(texts) : ~r.results[i].success})
               /\ r.processed = Cardinality({i \in 1..Len(texts) : r.results[i].success})
               /\ r.processed + r.failed = r.total
               /\ response = [status |-> 200, body |-> r]

\* the extraction of the first of two texts fails and that of the second succeeds
C30_Witness ==
    /\ call.op = "extract_batch_endpoint"
    /\ Len(request.texts) = 2
    /\ external[1].outcome = "error"
    /\ ~ret.value.results[1].success
    /\ ret.value.results[2].success
    /\ ret.value.processed = 1
    /\ ret.value.failed = 1

====
